---- MODULE Spec2Model ----
(***************************************************************************)
(* A model of the CHIP-8 interpreter in chip8.c: the CHIP8 machine state,  *)
(* the fetch/decode/execute loop of run(), and the per-tick scheduler      *)
(* (keyboard poll, instruction batch, timers, pacing sleep, refresh).      *)
(***************************************************************************)
EXTENDS Integers, Naturals, Sequences, FiniteSets, TLC

\* ---------------------------------------------------------------- constants
MEMORY_SIZE == 4096
STACK_SIZE == 5
NANOS_PER_SECOND == 1000000000
NANOS_PER_TICK == NANOS_PER_SECOND \div 60
NOKEY == 255
QUIT == 254
INSPERTICK == 11
LOADADDR == 512
ERR == -1
ESC == 27

\* The font table of loadfonts(), loaded at address 0.
Font == <<
  240, 144, 144, 144, 240,  32,  96,  32,  32, 112,
  240,  16, 240, 128, 240, 240,  16, 240,  16, 240,
  144, 144, 240,  16,  16, 240, 128, 240,  16, 240,
  240, 128, 240, 144, 240, 240,  16,  32,  64,  64,
  240, 144, 240, 144, 240, 240, 144, 240,  16, 240,
  240, 144, 240, 144, 144, 224, 144, 224, 144, 224,
  240, 128, 128, 128, 240, 224, 144, 144, 144, 224,
  240, 128, 240, 128, 240, 240, 128, 240, 128, 128 >>

\* The default keymap "x123qweasdzc4rfv" as a C string (NUL-terminated).
Keymap == <<120, 49, 50, 51, 113, 119, 101, 97, 115, 100, 122, 99, 52, 114, 102, 118, 0>>

\* ---------------------------------------------------------------- helpers
U8(n) == n % 256
U16(n) == n % 65536

\* C integer division (truncates toward zero).
CDiv(a, b) == IF a >= 0 THEN a \div b ELSE -((-a) \div b)

RECURSIVE BitAnd(_, _), BitOr(_, _), BitXor(_, _)
BitAnd(a, b) == IF a = 0 \/ b = 0 THEN 0
                ELSE 2 * BitAnd(a \div 2, b \div 2) + (IF a % 2 = 1 /\ b % 2 = 1 THEN 1 ELSE 0)
BitOr(a, b) == IF a = 0 THEN b ELSE IF b = 0 THEN a
               ELSE 2 * BitOr(a \div 2, b \div 2) + (IF a % 2 = 1 \/ b % 2 = 1 THEN 1 ELSE 0)
BitXor(a, b) == IF a = 0 THEN b ELSE IF b = 0 THEN a
                ELSE 2 * BitXor(a \div 2, b \div 2) + (IF a % 2 # b % 2 THEN 1 ELSE 0)

\* isbitset(n, b): (b << n) & 0x80
IsBitSet(n, b) == BitAnd(b * 2^n, 128) # 0

\* Instruction fields (the decode macros of run()).
FA(w) == (w \div 4096) % 16
FB(w) == w % 256
FD(w) == w % 16
FX(w) == (w \div 256) % 16
FY(w) == (w \div 16) % 16
VAL(w) == w % 4096
LH(w) == w % 256

\* ---------------------------------------------------------------- addressing
FetchAddr(pc, off) == U16(pc + off) % MEMORY_SIZE
BcdAddr(i, off) == (i + off) % MEMORY_SIZE
\* regdmp() indexing mem without the modulo reduction.
DumpAddrUnreduced(i, off) == i + off
DumpAddr(i, off) == (i + off) % MEMORY_SIZE
LoadAddr(i, off) == (i + off) % MEMORY_SIZE

DrawAddr(i, row) == i + row

\* ---------------------------------------------------------------- keyboard
ToLower(c) == IF c >= 65 /\ c <= 90 THEN c + 32 ELSE c

\* strchr(keymap, ch): index of the first match, the terminator included; -1 if none.
StrChr(str, ch) ==
  IF \E j \in 1..Len(str) : str[j] = ch % 256
  THEN CHOOSE j0 \in 0..Len(str) - 1 :
         str[j0 + 1] = ch % 256 /\ \A j1 \in 0..j0 - 1 : str[j1 + 1] # ch % 256
  ELSE -1

\* getkeyboard(): c is the value getch() returned.
GetKeyboard(c) ==
  IF c = ESC THEN QUIT
  ELSE IF c # ERR /\ StrChr(Keymap, ToLower(c)) # -1 THEN StrChr(Keymap, ToLower(c))
  ELSE NOKEY

\* ---------------------------------------------------------------- decode
\* The dispatch chain without its DAD(0x8, 0x0E, ...) line.
DecodeNoShl(w) ==
  IF w = 224 THEN "CLS"                         \* 0x00E0
  ELSE IF w = 238 THEN "RTS"                    \* 0x00EE
  ELSE IF FA(w) = 1 THEN "JP"
  ELSE IF FA(w) = 2 THEN "CALL"
  ELSE IF FA(w) = 3 THEN "SE"
  ELSE IF FA(w) = 4 THEN "SNE"
  ELSE IF FA(w) = 5 /\ FD(w) = 0 THEN "SER"
  ELSE IF FA(w) = 6 THEN "LD"
  ELSE IF FA(w) = 7 THEN "ADD"
  ELSE IF FA(w) = 8 /\ FD(w) = 0 THEN "MOV"
  ELSE IF FA(w) = 8 /\ FD(w) = 1 THEN "OR"
  ELSE IF FA(w) = 8 /\ FD(w) = 2 THEN "AND"
  ELSE IF FA(w) = 8 /\ FD(w) = 3 THEN "XOR"
  ELSE IF FA(w) = 8 /\ FD(w) = 4 THEN "ADDC"
  ELSE IF FA(w) = 8 /\ FD(w) = 5 THEN "SUB"
  ELSE IF FA(w) = 8 /\ FD(w) = 6 THEN "SHR"
  ELSE IF FA(w) = 8 /\ FD(w) = 7 THEN "SUBN"
  ELSE IF FA(w) = 9 /\ FD(w) = 0 THEN "SNER"
  ELSE IF FA(w) = 10 THEN "LDI"
  ELSE IF FA(w) = 11 THEN "JPV0"
  ELSE IF FA(w) = 12 THEN "RND"
  ELSE IF FA(w) = 13 THEN "DRW"
  ELSE IF FA(w) = 14 /\ FB(w) = 158 THEN "SKP"     \* 0x9E
  ELSE IF FA(w) = 14 /\ FB(w) = 161 THEN "SKNP"    \* 0xA1
  ELSE IF FA(w) = 15 /\ FB(w) = 7 THEN "LDVDT"     \* 0x07
  ELSE IF FA(w) = 15 /\ FB(w) = 10 THEN "WAITKEY"  \* 0x0A
  ELSE IF FA(w) = 15 /\ FB(w) = 21 THEN "LDDT"     \* 0x15
  ELSE IF FA(w) = 15 /\ FB(w) = 24 THEN "LDST"     \* 0x18
  ELSE IF FA(w) = 15 /\ FB(w) = 30 THEN "ADDI"     \* 0x1E
  ELSE IF FA(w) = 15 /\ FB(w) = 41 THEN "FONT"     \* 0x29
  ELSE IF FA(w) = 15 /\ FB(w) = 51 THEN "BCD"      \* 0x33
  ELSE IF FA(w) = 15 /\ FB(w) = 85 THEN "REGDMP"   \* 0x55
  ELSE IF FA(w) = 15 /\ FB(w) = 101 THEN "REGLD"   \* 0x65
  ELSE "INVALID"

\* The dispatch chain of run(): the first DEQ/DAA/DAD/DAB line that matches.
Decode(w) ==
  IF w = 224 THEN "CLS"                         \* 0x00E0
  ELSE IF w = 238 THEN "RTS"                    \* 0x00EE
  ELSE IF FA(w) = 1 THEN "JP"
  ELSE IF FA(w) = 2 THEN "CALL"
  ELSE IF FA(w) = 3 THEN "SE"
  ELSE IF FA(w) = 4 THEN "SNE"
  ELSE IF FA(w) = 5 /\ FD(w) = 0 THEN "SER"
  ELSE IF FA(w) = 6 THEN "LD"
  ELSE IF FA(w) = 7 THEN "ADD"
  ELSE IF FA(w) = 8 /\ FD(w) = 0 THEN "MOV"
  ELSE IF FA(w) = 8 /\ FD(w) = 1 THEN "OR"
  ELSE IF FA(w) = 8 /\ FD(w) = 2 THEN "AND"
  ELSE IF FA(w) = 8 /\ FD(w) = 3 THEN "XOR"
  ELSE IF FA(w) = 8 /\ FD(w) = 4 THEN "ADDC"
  ELSE IF FA(w) = 8 /\ FD(w) = 5 THEN "SUB"
  ELSE IF FA(w) = 8 /\ FD(w) = 6 THEN "SHR"
  ELSE IF FA(w) = 8 /\ FD(w) = 7 THEN "SUBN"
  ELSE IF FA(w) = 8 /\ FD(w) = 14 THEN "SHL"
  ELSE IF FA(w) = 9 /\ FD(w) = 0 THEN "SNER"
  ELSE IF FA(w) = 10 THEN "LDI"
  ELSE IF FA(w) = 11 THEN "JPV0"
  ELSE IF FA(w) = 12 THEN "RND"
  ELSE IF FA(w) = 13 THEN "DRW"
  ELSE IF FA(w) = 14 /\ FB(w) = 158 THEN "SKP"     \* 0x9E
  ELSE IF FA(w) = 14 /\ FB(w) = 161 THEN "SKNP"    \* 0xA1
  ELSE IF FA(w) = 15 /\ FB(w) = 7 THEN "LDVDT"     \* 0x07
  ELSE IF FA(w) = 15 /\ FB(w) = 10 THEN "WAITKEY"  \* 0x0A
  ELSE IF FA(w) = 15 /\ FB(w) = 21 THEN "LDDT"     \* 0x15
  ELSE IF FA(w) = 15 /\ FB(w) = 24 THEN "LDST"     \* 0x18
  ELSE IF FA(w) = 15 /\ FB(w) = 30 THEN "ADDI"     \* 0x1E
  ELSE IF FA(w) = 15 /\ FB(w) = 41 THEN "FONT"     \* 0x29
  ELSE IF FA(w) = 15 /\ FB(w) = 51 THEN "BCD"      \* 0x33
  ELSE IF FA(w) = 15 /\ FB(w) = 85 THEN "REGDMP"   \* 0x55
  ELSE IF FA(w) = 15 /\ FB(w) = 101 THEN "REGLD"   \* 0x65
  ELSE "INVALID"

\* ---------------------------------------------------------------- operations
\* The machine is handled as a record s with the fields of the variables below;
\* s.pc is the program counter after fetch().
Acc(base, off, addr) == [base |-> base, off |-> off, addr |-> addr]

\* cls()
Cls(s) == [s EXCEPT !.display = {}, !.dirty = TRUE]

\* rts()
Rts(s) ==
  IF s.sp = 0 THEN [s EXCEPT !.status = "stack underflow"]
  ELSE [s EXCEPT !.pc = s.stack[s.sp - 1], !.sp = s.sp - 1,
                 !.calls = SubSeq(s.calls, 1, Len(s.calls) - 1)]

\* call() with the capacity test written as sp > STACK_SIZE.
CallLateCheck(s, addr) ==
  IF s.sp > STACK_SIZE THEN [s EXCEPT !.status = "stack overflow"]
  ELSE [s EXCEPT !.stack[s.sp] = s.pc, !.sp = s.sp + 1, !.pc = addr,
                 !.calls = Append(s.calls, U16(s.pc + 65534))]

\* call(); calls records the address of each 2NNN that pushed an entry.
Call(s, addr) ==
  IF s.sp >= STACK_SIZE THEN [s EXCEPT !.status = "stack overflow"]
  ELSE [s EXCEPT !.stack[s.sp] = s.pc, !.sp = s.sp + 1, !.pc = addr,
                 !.calls = Append(s.calls, U16(s.pc + 65534))]

\* draw() with setpixel(); display is the set of <<row, col>> pixels that are on.
DrawRows(s, w) ==
  LET y == s.v[FY(w)] % 32
  IN {r \in 0..FD(w) - 1 : y + r < 32 /\ s.i + r < MEMORY_SIZE}

DrawToggled(s, w) ==
  LET x == s.v[FX(w)] % 64
      y == s.v[FY(w)] % 32
      hits == {rc \in DrawRows(s, w) \X (0..7) :
                 x + rc[2] < 64 /\ IsBitSet(rc[2], s.mem[DrawAddr(s.i, rc[1])])}
  IN {<<y + rc[1], x + rc[2]>> : rc \in hits}

Draw(s, w) ==
  LET t == DrawToggled(s, w)
  IN [s EXCEPT !.display = (s.display \ t) \cup (t \ s.display),
               !.v[15] = IF t \cap s.display # {} THEN 1 ELSE 0,
               !.dirty = s.dirty \/ t # {},
               !.acc = s.acc \cup {Acc(s.i, r, DrawAddr(s.i, r)) : r \in DrawRows(s, w)}]

\* bcd()
Bcd(s, vx) ==
  [s EXCEPT !.mem = [s.mem EXCEPT ![BcdAddr(s.i, 0)] = vx \div 100,
                                  ![BcdAddr(s.i, 1)] = (vx % 100) \div 10,
                                  ![BcdAddr(s.i, 2)] = vx % 10],
            !.acc = s.acc \cup {Acc(s.i, k, BcdAddr(s.i, k)) : k \in 0..2}]

\* regdmp()
RECURSIVE DumpRegs(_, _, _, _)
DumpRegs(m, i, v, k) == IF k < 0 THEN m
                        ELSE DumpRegs([m EXCEPT ![DumpAddr(i, k)] = v[k]], i, v, k - 1)
RegDmp(s, x) ==
  [s EXCEPT !.mem = DumpRegs(s.mem, s.i, s.v, x),
            !.acc = s.acc \cup {Acc(s.i, k, DumpAddr(s.i, k)) : k \in 0..x}]

\* regld()
RegLd(s, x) ==
  [s EXCEPT !.v = [r \in 0..15 |-> IF r <= x THEN s.mem[LoadAddr(s.i, r)] ELSE s.v[r]],
            !.acc = s.acc \cup {Acc(s.i, k, LoadAddr(s.i, k)) : k \in 0..x}]

\* 8XY4: Vx += Vy; VF = (int)Vx + Vy > 0xFF
AddC(s, x, y) ==
  LET v1 == [s.v EXCEPT ![x] = U8(s.v[x] + s.v[y])]
  IN [s EXCEPT !.v = [v1 EXCEPT ![15] = IF v1[x] + v1[y] > 255 THEN 1 ELSE 0]]

\* 8XY5: Vx -= Vy; VF = (int)Vx > Vy
Sub(s, x, y) ==
  LET v1 == [s.v EXCEPT ![x] = U8(s.v[x] - s.v[y])]
  IN [s EXCEPT !.v = [v1 EXCEPT ![15] = IF v1[x] > v1[y] THEN 1 ELSE 0]]

\* 8XY6: VF = Vx&1; Vx >>= 1
Shr(s, x) ==
  LET v1 == [s.v EXCEPT ![15] = s.v[x] % 2]
  IN [s EXCEPT !.v = [v1 EXCEPT ![x] = v1[x] \div 2]]

\* 8XYE: VF = isbitset(0, Vx); Vx <<= 1
Shl(s, x) ==
  LET v1 == [s.v EXCEPT ![15] = IF IsBitSet(0, s.v[x]) THEN 1 ELSE 0]
  IN [s EXCEPT !.v = [v1 EXCEPT ![x] = U8(v1[x] * 2)]]

\* FX1E: I += Vx; VF = (int)Vx + I > 0xFFF
AddI(s, x) ==
  LET i1 == U16(s.i + s.v[x])
  IN [s EXCEPT !.i = i1, !.v[15] = IF s.v[x] + i1 > 4095 THEN 1 ELSE 0]

SkipIf(s, c) == IF c THEN [s EXCEPT !.pc = U16(s.pc + 2)] ELSE s

\* One dispatch of the loop body of run(), after fetch(); key is `pressed`.
Execute(s, w, key) ==
  LET op == Decode(w)
      x == FX(w)
      y == FY(w)
      vx == s.v[x]
      vy == s.v[y]
  IN CASE op = "CLS" -> {Cls(s)}
       [] op = "RTS" -> {Rts(s)}
       [] op = "JP" -> {[s EXCEPT !.pc = VAL(w)]}
       [] op = "CALL" -> {Call(s, VAL(w))}
       [] op = "SE" -> {SkipIf(s, vx = LH(w))}
       [] op = "SNE" -> {SkipIf(s, vx # LH(w))}
       [] op = "SER" -> {SkipIf(s, vx = vy)}
       [] op = "LD" -> {[s EXCEPT !.v[x] = LH(w)]}
       [] op = "ADD" -> {[s EXCEPT !.v[x] = U8(vx + LH(w))]}
       [] op = "MOV" -> {[s EXCEPT !.v[x] = vy]}
       [] op = "OR" -> {[s EXCEPT !.v[x] = BitOr(vx, vy)]}
       [] op = "AND" -> {[s EXCEPT !.v[x] = BitAnd(vx, vy)]}
       [] op = "XOR" -> {[s EXCEPT !.v[x] = BitXor(vx, vy)]}
       [] op = "ADDC" -> {AddC(s, x, y)}
       [] op = "SUB" -> {Sub(s, x, y)}
       [] op = "SHR" -> {Shr(s, x)}
       [] op = "SUBN" -> {[s EXCEPT !.v[x] = U8(vy - vx)]}
       [] op = "SHL" -> {Shl(s, x)}
       [] op = "SNER" -> {SkipIf(s, vx # vy)}
       [] op = "LDI" -> {[s EXCEPT !.i = VAL(w)]}
       [] op = "JPV0" -> {[s EXCEPT !.pc = U16(VAL(w) + s.v[0])]}
       [] op = "RND" -> {[s EXCEPT !.v[x] = BitAnd(r, LH(w))] : r \in 0..254}
       [] op = "DRW" -> {Draw(s, w)}
       [] op = "SKP" -> {SkipIf(s, vx = key)}
       [] op = "SKNP" -> {SkipIf(s, vx # key)}
       [] op = "LDVDT" -> {[s EXCEPT !.v[x] = s.delay]}
       [] op = "WAITKEY" -> {[s EXCEPT !.pc = U16(s.pc + 65534), !.keyreg = x]}
       [] op = "LDDT" -> {[s EXCEPT !.delay = vx]}
       [] op = "LDST" -> {[s EXCEPT !.sound = vx]}
       [] op = "ADDI" -> {AddI(s, x)}
       [] op = "FONT" -> {[s EXCEPT !.i = U16(vx * 5)]}
       [] op = "BCD" -> {Bcd(s, vx)}
       [] op = "REGDMP" -> {RegDmp(s, x)}
       [] op = "REGLD" -> {RegLd(s, x)}
       [] OTHER -> {[s EXCEPT !.status = "invalid instruction"]}

\* ---------------------------------------------------------------- clock
\* tsdiff(end, start)
TsDiff(en, st) == (en.sec - st.sec) + CDiv(en.nsec - st.nsec, NANOS_PER_SECOND)

\* sleeptonexttick(start, end): the nanoseconds requested, 0 when no sleep is requested.
SleepToNextTick(st, en) ==
  LET nanos == NANOS_PER_TICK - TsDiff(en, st)
  IN IF nanos > 0 THEN nanos ELSE 0

AddNanos(t, d) == [sec |-> t.sec + (t.nsec + d) \div NANOS_PER_SECOND,
                   nsec |-> (t.nsec + d) % NANOS_PER_SECOND]

\* ---------------------------------------------------------------- state
VARIABLES
  mem, v, i, pc, sp, stack, delay, sound, display, dirty,   \* struct CHIP8
  keyreg, pressed, inst, iter,                              \* locals of run()
  phase,      \* position in run(): "poll", "exec" (the for loop), "exit"
  status,     \* "running", or the message die() was called with
  tstart, tend, sleepReq,   \* clock readings of the tick and the requested sleep
  acc,        \* memory accesses of the last instruction (base, offset, address)
  calls       \* addresses of the 2NNN instructions whose entries are on the stack

vars == <<mem, v, i, pc, sp, stack, delay, sound, display, dirty, keyreg, pressed,
          inst, iter, phase, status, tstart, tend, sleepReq, acc, calls>>

Machine == [mem |-> mem, v |-> v, i |-> i, pc |-> pc, sp |-> sp, stack |-> stack,
            delay |-> delay, sound |-> sound, display |-> display, dirty |-> dirty,
            keyreg |-> keyreg, status |-> status, acc |-> acc, calls |-> calls]

\* A program image: a sequence of 16-bit words, loaded big-endian at LOADADDR.
ProgByte(prog, a) ==
  LET k == a - LOADADDR
  IN IF k % 2 = 0 THEN prog[k \div 2 + 1] \div 256 ELSE prog[k \div 2 + 1] % 256

\* main(): loadfonts(mem, 0), loadrom(rom, mem, 512), the CHIP8 initialiser.
LoadImage(prog) ==
  [a \in 0..MEMORY_SIZE - 1 |->
     IF a < Len(Font) THEN Font[a + 1]
     ELSE IF a >= LOADADDR /\ a < LOADADDR + 2 * Len(prog) THEN ProgByte(prog, a)
     ELSE 0]

Time0 == [sec |-> 0, nsec |-> 0]

InitWith(Progs) ==
  /\ \E prog \in Progs : mem = LoadImage(prog)
  /\ v = [r \in 0..15 |-> 0]
  /\ i = 0
  /\ pc = LOADADDR
  /\ sp = 0
  /\ stack = [r \in 0..STACK_SIZE - 1 |-> 0]
  /\ delay = 0
  /\ sound = 0
  /\ display = {}
  /\ dirty = FALSE
  /\ keyreg = 17
  /\ pressed = NOKEY
  /\ inst = 0
  /\ iter = 0
  /\ phase = "poll"
  /\ status = "running"
  /\ tstart = Time0
  /\ tend = Time0
  /\ sleepReq = 0
  /\ acc = {}
  /\ calls = <<>>

\* Top of the while loop of run(): getkeyboard(), delivery to a waiting FX0A,
\* clock_gettime(&start). Chars are the values getch() may return.
PollWith(Chars, Starts) ==
  /\ phase = "poll" /\ status = "running"
  /\ \E c \in Chars, st \in Starts :
       LET key == GetKeyboard(c)
       IN /\ pressed' = key
          /\ IF keyreg < 16 /\ key # NOKEY
             THEN /\ v' = [v EXCEPT ![keyreg] = key]
                  /\ keyreg' = 17
                  /\ pc' = U16(pc + 2)
             ELSE UNCHANGED <<v, keyreg, pc>>
          /\ tstart' = st
  /\ phase' = "exec"
  /\ iter' = 0
  /\ acc' = {}
  /\ UNCHANGED <<mem, i, sp, stack, delay, sound, display, dirty, inst, status,
                 tend, sleepReq, calls>>

\* One iteration of the for loop of run(): fetch() and the dispatch chain.
Step ==
  /\ phase = "exec" /\ status = "running" /\ iter < INSPERTICK
  /\ LET w == mem[FetchAddr(pc, 0)] * 256 + mem[FetchAddr(pc, 1)]
         s0 == [Machine EXCEPT !.pc = U16(pc + 2),
                  !.acc = {Acc(pc, 0, FetchAddr(pc, 0)), Acc(pc, 1, FetchAddr(pc, 1))}]
     IN /\ inst' = w
        /\ \E t \in Execute(s0, w, pressed) :
             /\ mem' = t.mem /\ v' = t.v /\ i' = t.i /\ pc' = t.pc /\ sp' = t.sp
             /\ stack' = t.stack /\ delay' = t.delay /\ sound' = t.sound
             /\ display' = t.display /\ dirty' = t.dirty /\ keyreg' = t.keyreg
             /\ status' = t.status /\ acc' = t.acc /\ calls' = t.calls
  /\ iter' = iter + 1
  /\ UNCHANGED <<pressed, phase, tstart, tend, sleepReq>>

\* After the batch: timers, clock_gettime(&end), sleeptonexttick(), refreshscreen(),
\* and the test of the while loop.
EndTickWith(Elapsed) ==
  /\ phase = "exec" /\ status = "running" /\ iter = INSPERTICK
  /\ delay' = IF delay > 0 THEN delay - 1 ELSE delay
  /\ sound' = IF sound > 0 THEN sound - 1 ELSE sound
  /\ \E d \in Elapsed :
       /\ tend' = AddNanos(tstart, d)
       /\ sleepReq' = SleepToNextTick(tstart, AddNanos(tstart, d))
  /\ dirty' = FALSE
  /\ phase' = IF pressed = QUIT THEN "exit" ELSE "poll"
  /\ UNCHANGED <<mem, v, i, pc, sp, stack, display, keyreg, pressed, inst, iter,
                 status, tstart, acc, calls>>

\* ---------------------------------------------------------------- specifications
\* Every getch() result of the default keymap's alphabet, upper case, NUL, ESC, ERR
\* and an unmapped key.
AllChars == {ERR, ESC, 0, 88, 109} \cup {Keymap[j] : j \in 1..16}

\* The full program: every keyboard input, two clock origins (one just before a
\* second boundary) and batch durations around the tick period.
Starts == {Time0, [sec |-> 5, nsec |-> 999000000]}
Elapsed == {0, 1000000, NANOS_PER_TICK - 1, NANOS_PER_TICK, 20000000}

Poll == PollWith(AllChars, Starts)
EndTick == EndTickWith(Elapsed)

\* A quiet environment: no key pressed, a batch that takes no time.
PollIdle == PollWith({ERR}, {Time0})
EndTickIdle == EndTickWith({0})

\* --- arithmetic: 6Xaa 6Ybb <op>, then the word 0000 (invalid instruction).
MaxSmall == 2
ValSamples == (0..MaxSmall) \cup (255 - MaxSmall..255) \cup {127, 128}
RegPairs == {<<0, 1>>, <<1, 0>>, <<0, 0>>, <<15, 1>>, <<0, 15>>}
ArithOps == {4, 5, 6, 14}
ArithProgs ==
  {<<24576 + rp[1] * 256 + a, 24576 + rp[2] * 256 + b,
     32768 + rp[1] * 256 + rp[2] * 16 + op, 0>> :
     rp \in RegPairs, a \in ValSamples, b \in ValSamples, op \in ArithOps}
\* --- index add: Annn 6Xbb FX1E
IValSamples == {0, 3840, 4094, 4095}
AddIProgs ==
  {<<40960 + a, 24576 + x * 256 + b, 61470 + x * 256, 0>> :
     a \in IValSamples, x \in {0, 15}, b \in ValSamples}

\* --- 60FF 6101 8014, then a jump to itself.
AddLoopProg == <<24831, 24833, 32788, 4614>>
ArithInit == InitWith(ArithProgs \cup AddIProgs \cup {AddLoopProg})
ArithNext == PollIdle \/ Step \/ EndTickIdle
ArithSpec == ArithInit /\ [][ArithNext]_vars


\* --- key wait: FX0A followed by a jump to itself, every keyboard input.
KeyProgs == {<<61450 + x * 256, 4610>> : x \in {0, 3, 15}}
PollKeys == PollWith(AllChars, {Time0})
KeyInit == InitWith(KeyProgs)
KeyNext == PollKeys \/ Step \/ EndTickIdle
KeySpec == KeyInit /\ [][KeyNext]_vars

\* --- pacing: 6008 F015 (delay = 8) then a jump to itself; every clock reading.
TimeProgs == {<<24576 + d, 61461, 4612>> : d \in {0, 8}}
PollTimed == PollWith({ERR}, Starts)
TimeInit == InitWith(TimeProgs)
TimeNext == PollTimed \/ Step \/ EndTick
TimeSpec == TimeInit /\ [][TimeNext]_vars

\* --- addressing: I set near the end of memory (or at 0) then FX55 FX65 FX33 DXYN;
\* a loop of FE1E with VE = FF that brings I to 0xFFFE; jumps to 0xFFF and 0x10FE.
MaxOff == 3
AddrIs == {4095 - o : o \in 0..MaxOff} \cup {0}
AddrProgs ==
  {<<40960 + a, 24583, 24874, 25343, 25472, 62293, 62309, 61491, 53279, 0>> : a \in AddrIs}
  \cup {<<28415, 45039, 65054, 32001, 15857, 4612, 62293, 62309, 61491, 53279, 0>>,
        <<24831, 49151>>,
        <<8191>>}
AddrInit == InitWith(AddrProgs)
AddrNext == PollIdle \/ Step \/ EndTickIdle
AddrSpec == AddrInit /\ [][AddrNext]_vars

\* --- draw: 60xx 61yy Annn D01n D01n, and two overlapping glyphs drawn in turn.
DrawXs == {0, 60, 70}
DrawYs == {0, 30, 40}
DrawProgs ==
  {<<24576 + xx, 24832 + yy, 40960 + a, 53264 + n, 53264 + n, 0>> :
     xx \in DrawXs, yy \in DrawYs, a \in {0, 4095}, n \in {0, 2, 5, 15}}
  \cup {<<24576, 24832, 40960 + 40, 53269, 40960, 53269, 53269, 4622>>}
DrawInit == InitWith(DrawProgs)
DrawNext == PollIdle \/ Step \/ EndTickIdle
DrawSpec == DrawInit /\ [][DrawNext]_vars

\* --- stack: a chain of d nested subroutine calls (main at 512 calls f1 and jumps
\* back to 512; f(j) calls f(j+1) then returns; the last one returns).
MaxDepth == 6
FnAddr(j) == 516 + 4 * (j - 1)
ChainProg(d) ==
  IF d = 0 THEN <<238>>
  ELSE <<8192 + FnAddr(1), 4608>> \o
       [k \in 1..2 * d |->
          LET j == (k + 1) \div 2
          IN IF k % 2 = 1 THEN (IF j < d THEN 8192 + FnAddr(j + 1) ELSE 238)
             ELSE (IF j < d THEN 238 ELSE 0)]
StackProgs == {ChainProg(d) : d \in 0..MaxDepth} \cup {<<8704>>}
StackInit == InitWith(StackProgs)
StackNext == PollIdle \/ Step \/ EndTickIdle
StackSpec == StackInit /\ [][StackNext]_vars

\* --- decode: a program of one instruction word (then 0000).
MaxX == 0
\* low bytes: every low nibble under the high nibbles the FX and EX lines discriminate on
LowBytes == {h * 16 + n : h \in {0, 1, 2, 3, 5, 6, 9, 10, 14}, n \in 0..15}
DecodeWords == {a * 4096 + x * 256 + b : a \in 0..15, x \in 0..MaxX, b \in LowBytes}
DecodeProgs == {<<w>> : w \in DecodeWords}
DecodeInit == InitWith(DecodeProgs)
DecodeNext == PollIdle \/ Step \/ EndTickIdle
DecodeSpec == DecodeInit /\ [][DecodeNext]_vars

\* ---------------------------------------------------------------- claims
\* C1: after 8XY4, VF = 1 iff the 9-bit sum of the pre-instruction Vx and Vy exceeds
\* 255 (else 0), and for X # F, Vx = (Vx + Vy) mod 256.
C1_AddCarry ==
  [][(Step /\ Decode(inst') = "ADDC") =>
       LET x == FX(inst')
           y == FY(inst')
       IN /\ v'[15] = (IF v[x] + v[y] > 255 THEN 1 ELSE 0)
          /\ (x # 15 => v'[x] = U8(v[x] + v[y]))]_vars

\* C2: after 8XY5, VF = 1 iff the pre-instruction Vx > Vy (else 0), and for X # F,
\* Vx = (Vx - Vy) mod 256.
C2_SubBorrow ==
  [][(Step /\ Decode(inst') = "SUB") =>
       LET x == FX(inst')
           y == FY(inst')
       IN /\ v'[15] = (IF v[x] > v[y] THEN 1 ELSE 0)
          /\ (x # 15 => v'[x] = U8(v[x] - v[y]))]_vars

\* C3: after FX1E, I = (I + Vx) mod 2^16 and VF = 1 iff the pre-instruction I + Vx
\* exceeds 0xFFF (else 0).
C3_IndexAdd ==
  [][(Step /\ Decode(inst') = "ADDI") =>
       LET x == FX(inst')
       IN /\ i' = U16(i + v[x])
          /\ v'[15] = (IF i + v[x] > 4095 THEN 1 ELSE 0)]_vars

\* C4: for every X (F included), after 8XY6 VF is the least significant bit of the
\* pre-instruction Vx, after 8XYE its most significant bit; for X # F, Vx becomes
\* Vx >> 1 (resp. (Vx << 1) mod 256).
C4_ShiftFlags ==
  [][/\ (Step /\ Decode(inst') = "SHR") =>
          LET x == FX(inst')
          IN /\ v'[15] = v[x] % 2
             /\ (x # 15 => v'[x] = v[x] \div 2)
     /\ (Step /\ Decode(inst') = "SHL") =>
          LET x == FX(inst')
          IN /\ v'[15] = v[x] \div 128
             /\ (x # 15 => v'[x] = U8(v[x] * 2))]_vars

\* C5: while an FX0A at p waits, a poll returning "no key" or "quit" leaves PC and
\* the waiting register alone; a poll returning a key k in 0..15 sets Vx = k and
\* resumes at p + 2; the wait itself keeps PC at p; the destination register never
\* receives a value outside 0..15.
C5_KeyWait ==
  [][/\ (phase = "poll" /\ phase' = "exec" /\ keyreg < 16) =>
          IF pressed' \in 0..15
          THEN /\ v' = [v EXCEPT ![keyreg] = pressed']
               /\ pc' = U16(pc + 2) /\ keyreg' = 17
          ELSE /\ v' = v /\ pc' = pc /\ keyreg' = keyreg
     /\ (Step /\ Decode(inst') = "WAITKEY") => pc' = pc]_vars

\* C6: each tick's requested sleep is NANOS_PER_TICK minus the batch's elapsed time
\* in nanoseconds between the start and end readings; none (0) when the elapsed time
\* is at least the period.
ElapsedNanos(st, en) == (en.sec - st.sec) * NANOS_PER_SECOND + (en.nsec - st.nsec)
C6_Pacing ==
  [][(phase = "exec" /\ phase' # "exec" /\ status' = "running") =>
       sleepReq' = IF ElapsedNanos(tstart, tend') < NANOS_PER_TICK
                   THEN NANOS_PER_TICK - ElapsedNanos(tstart, tend')
                   ELSE 0]_vars

\* C7: every memory access of fetch, draw, FX33, FX55 and FX65 is at the effective
\* address (base + offset) mod 4096, inside 0..4095.
C7_Wraparound ==
  \A a \in acc : a.addr = (a.base + a.off) % MEMORY_SIZE /\ a.addr \in 0..MEMORY_SIZE - 1

C7_Witness == \E a \in acc : a.base + a.off >= 65536

\* C8: after DXYN each in-grid pixel (y mod 32 + r, x mod 64 + c), r < N, c < 8, is
\* XORed with bit c (MSB first) of sprite byte r, the byte at I + r taken modulo the
\* memory size; nothing else changes; VF = 1 iff an on-pixel was turned off; the
\* dirty flag is set iff a pixel was toggled or it was already set.
ClaimDrawToggled(w) ==
  LET x == v[FX(w)] % 64
      y == v[FY(w)] % 32
      hits == {rc \in (0..FD(w) - 1) \X (0..7) :
                 /\ y + rc[1] < 32 /\ x + rc[2] < 64
                 /\ (mem[(i + rc[1]) % MEMORY_SIZE] \div 2^(7 - rc[2])) % 2 = 1}
  IN {<<y + rc[1], x + rc[2]>> : rc \in hits}
C8_Draw ==
  [][(Step /\ Decode(inst') = "DRW") =>
       LET t == ClaimDrawToggled(inst')
       IN /\ display' = (display \ t) \cup (t \ display)
          /\ v'[15] = (IF t \cap display # {} THEN 1 ELSE 0)
          /\ (dirty' <=> (dirty \/ t # {}))]_vars

\* C9: sp stays in 0..5; 2NNN with 5 entries halts with "stack overflow"; 00EE with an
\* empty stack halts with "stack underflow"; otherwise 00EE resumes at the address
\* following the matching 2NNN; nothing runs after a halt.
C9_Stack ==
  /\ [](sp \in 0..STACK_SIZE /\ Len(calls) = sp)
  /\ [][/\ (Step /\ Decode(inst') = "CALL" /\ sp = STACK_SIZE) => status' = "stack overflow"
        /\ (Step /\ Decode(inst') = "RTS" /\ sp = 0) => status' = "stack underflow"
        /\ (Step /\ Decode(inst') = "RTS" /\ sp > 0) =>
              /\ status' = "running"
              /\ pc' = U16(calls[Len(calls)] + 2)
        /\ status # "running" => UNCHANGED vars]_vars

C9_Witness == Decode(inst) = "RTS" /\ status = "running" /\ sp = STACK_SIZE - 1

\* C10: the instruction set the claim describes: 00E0, 00EE, 1NNN-4XNN, 5XY0, 6XNN,
\* 7XNN, 8XY0-8XY7, 8XYE, 9XY0, ANNN-DXYN, EX9E, EXA1 and FX07, FX0A, FX15, FX18,
\* FX1E, FX29, FX33, FX55, FX65.
ClaimValid(w) ==
  LET a == w \div 4096
      n == w % 16
      b == w % 256
  IN \/ w \in {224, 238}
     \/ a \in {1, 2, 3, 4, 6, 7, 10, 11, 12, 13}
     \/ a \in {5, 9} /\ n = 0
     \/ a = 8 /\ n \in (0..7) \cup {14}
     \/ a = 14 /\ b \in {158, 161}
     \/ a = 15 /\ b \in {7, 10, 21, 24, 30, 41, 51, 85, 101}
DecodeMatchesClaim == \A w \in 0..65535 : (Decode(w) # "INVALID") <=> ClaimValid(w)
AcceptedOps == {Decode(w) : w \in 0..65535} \ {"INVALID"}

\* C10 (as stated): the interpreter accepts exactly a fixed set of 35 instructions,
\* every other word halts the run with "invalid instruction" and nothing runs after.
C10_Decode35 ==
  /\ [](phase \in {"poll", "exec", "exit"} =>
          DecodeMatchesClaim /\ Cardinality(AcceptedOps) = 35)
  /\ [][/\ Step => (status' = "invalid instruction" <=> ~ClaimValid(inst'))
        /\ status # "running" => UNCHANGED vars]_vars

\* C10 (amended): the interpreter accepts exactly 34 instructions (the claim's list;
\* 0NNN other than 00E0/00EE is not one), every other word halts the run with
\* "invalid instruction" and nothing runs after.
C10_Decode34 ==
  /\ [](phase \in {"poll", "exec", "exit"} =>
          DecodeMatchesClaim /\ Cardinality(AcceptedOps) = 34)
  /\ [][/\ Step => (status' = "invalid instruction" <=> ~ClaimValid(inst'))
        /\ status # "running" => UNCHANGED vars]_vars

C10_Witness == status = "invalid instruction" /\ inst # 0

====
